---- MODULE Spec2Model ----
(***************************************************************************)
(* Model of the cardiac-valve geometry generator                           *)
(* (examples/cardiac_valve/generate_valve_geometry.py).                    *)
(*                                                                         *)
(* generate_aortic_valve is modelled statement by statement: one action    *)
(* per loop iteration, loop exit, raise and return.  Reals are kept exact  *)
(* as scaled integers:                                                     *)
(*   spring_stiffness        in dyn/cm            (5.0e2  -> 500)          *)
(*   beam_rigidity           in units of 1e-2     (1.0e-2 -> 1)            *)
(*   leaflet_length_factor   in percent           (0.95   -> 95)           *)
(*   mobility                in tenths            (0.9    -> 9)            *)
(*   lengths                 in units of 1e-4 cm  (1.2    -> 12000)        *)
(* A vertex is kept in the polar form the code computes it from: the       *)
(* curve parameter t = t_num / t_den, the radius r = r_num / t_den, the    *)
(* leaflet's centre angle in units of 2*pi/3, the curvature                *)
(* curvature_num / (100 * t_den^2) and the class of np.sin(np.pi * t).     *)
(***************************************************************************)
EXTENDS Integers, Sequences, FiniteSets, TLC

VARIABLES pc, severity, n_points_per_leaflet, params, leaflet_length,
          vertices, springs, beams, n_vertices, leaflet_idx, i, raised, result

\* The call before the current one, as its caller saw it.
VARIABLES prev

\* main and the three writers: main's position, the writer running and its
\* position and loop index, the files on disk, the open handles, what was
\* printed, the writers invoked so far, and the exception that ended main
\* with the operation that raised it.
VARIABLES mpc, writer, wpc, wi, files, handles, stdout, invoked,
          main_raised, failed_at

\* visualize_geometry.py reading the three files back: its position and
\* the arrays it has read.
VARIABLES vpc, readback

\* What plot_single_geometry and plot_with_coordinate_system marked.
VARIABLES marks

mainVars == <<mpc, writer, wpc, wi, files, handles, stdout, invoked,
              main_raised, failed_at>>

readVars == <<vpc, readback, marks>>

\* calculate_geometric_properties: its position, its two arguments, its
\* locals, the exception it raised and the dictionary it returned.
VARIABLES props_pc, props_vertices, props_springs, center, min_radius,
          max_radius, orifice_area, avg_stiffness, max_stiffness,
          props_raised, properties

\* Who called calculate_geometric_properties: main of visualize_geometry.py
\* with the arrays it read, or a caller with arrays of its own.
VARIABLES props_caller

\* calculate_clinical_severity of analyze_results.py: its position, its three
\* arguments and the label it returned.
VARIABLES clin_pc, mean_gradient, peak_velocity, eoa, clin_result

clinVars == <<clin_pc, mean_gradient, peak_velocity, eoa, clin_result>>

propVars == <<props_pc, props_vertices, props_springs, center, min_radius,
              max_radius, orifice_area, avg_stiffness, max_stiffness,
              props_raised, properties, props_caller>>

\* The frame of generate_aortic_valve.
genVars == <<pc, severity, n_points_per_leaflet, params, leaflet_length,
             vertices, springs, beams, n_vertices, leaflet_idx, i, raised,
             result>>

\* Everything outside the frame of generate_aortic_valve.
outerVars == <<prev, mainVars, readVars, propVars, clinVars>>

vars == <<pc, severity, n_points_per_leaflet, params, leaflet_length,
          vertices, springs, beams, n_vertices, leaflet_idx, i, raised, result,
          outerVars>>

\* Largest resolution (--resolution) the model explores.
MaxPoints == 40

\* Largest resolution explored when the generator is called repeatedly.
MaxPairPoints == 6

\* Largest --resolution explored when main writes the files.
MaxMainPoints == 17

\* Resolutions main is started with.
MainResolutions == (0 - 1)..MaxMainPoints

\* Resolutions handed to the generator when it is called repeatedly.
PairResolutions == (0 - 1)..MaxPairPoints

\* Resolutions handed to the generator: valid ones and the invalid -1, 0, 1.
Resolutions == (0 - 1)..MaxPoints

\* The four table labels.
Labels == {"healthy", "mild", "moderate", "severe"}

\* Severity labels handed to the generator: the four of the table and a stranger.
Severities == Labels \cup {"unknown"}

\* Default arguments of generate_aortic_valve, in units of 1e-4 cm.
annulus_radius == 10000

leaflet_length_default == 12000

n_leaflets == 3

severity_params_stiff_mild ==
    [healthy  |-> [spring_stiffness |-> 500,  beam_rigidity |-> 1,
                   leaflet_length_factor |-> 100, mobility |-> 10],
     mild     |-> [spring_stiffness |-> 500,  beam_rigidity |-> 2,
                   leaflet_length_factor |-> 95,  mobility |-> 9],
     moderate |-> [spring_stiffness |-> 1500, beam_rigidity |-> 5,
                   leaflet_length_factor |-> 85,  mobility |-> 7],
     severe   |-> [spring_stiffness |-> 3000, beam_rigidity |-> 10,
                   leaflet_length_factor |-> 70,  mobility |-> 4]]

\* The severity table.
severity_params ==
    [healthy  |-> [spring_stiffness |-> 500,  beam_rigidity |-> 1,
                   leaflet_length_factor |-> 100, mobility |-> 10],
     mild     |-> [spring_stiffness |-> 800,  beam_rigidity |-> 2,
                   leaflet_length_factor |-> 95,  mobility |-> 9],
     moderate |-> [spring_stiffness |-> 1500, beam_rigidity |-> 5,
                   leaflet_length_factor |-> 85,  mobility |-> 7],
     severe   |-> [spring_stiffness |-> 3000, beam_rigidity |-> 10,
                   leaflet_length_factor |-> 70,  mobility |-> 4]]

\* params before line 74 has bound it.
NoParams == [spring_stiffness |-> 0, beam_rigidity |-> 0,
             leaflet_length_factor |-> 0, mobility |-> 0]

LookupWithDefault(label) ==
    IF label \in DOMAIN severity_params
    THEN [raises |-> "none", value |-> severity_params[label]]
    ELSE [raises |-> "none", value |-> severity_params["healthy"]]

\* severity_params[severity]: a dict subscript, KeyError on a missing key.
Lookup(label) ==
    IF label \in DOMAIN severity_params
    THEN [raises |-> "none", value |-> severity_params[label]]
    ELSE [raises |-> "KeyError", value |-> NoParams]

\* leaflet_length *= params['leaflet_length_factor']
ScaledLength(length, p) == (length * p.leaflet_length_factor) \div 100

Max(a, b) == IF a >= b THEN a ELSE b

\* np.sin(np.pi * t) for t = k / (n - 1): exactly 0.0 at t = 0, the tiny
\* positive 1.22e-16 at t = 1 (np.pi is not pi), positive in between.
SinPiT(k, n) ==
    IF k = 0 THEN "zero" ELSE IF k = n - 1 THEN "tiny" ELSE "positive"

NeverDivides(n) == FALSE

\* i / (n_points_per_leaflet - 1) divides by zero.
DividesByZero(n) == n - 1 = 0

VertexFromTip(k, j, n, length, p) ==
    [theta_center  |-> k,
     t_num         |-> n - 1 - j,
     t_den         |-> n - 1,
     r_num         |-> annulus_radius * (n - 1) + length * (n - 1 - j),
     curvature_num |-> 3 * ((n - 1) * (n - 1) - j * j) * p.mobility,
     sin_pi_t      |-> SinPiT(j, n)]

VertexRescaled(k, j, n, length, p) ==
    [theta_center  |-> k,
     t_num         |-> j,
     t_den         |-> n - 1,
     r_num         |-> annulus_radius * (n - 1)
                       + (IF k = 0 THEN length ELSE ScaledLength(length, p)) * j,
     curvature_num |-> 3 * ((n - 1) * (n - 1) - j * j) * p.mobility,
     sin_pi_t      |-> SinPiT(j, n)]

VertexCurvaturePlus(k, j, n, length, p) ==
    [theta_center  |-> k,
     t_num         |-> j,
     t_den         |-> n - 1,
     r_num         |-> annulus_radius * (n - 1) + length * j,
     curvature_num |-> 3 * ((n - 1) * (n - 1) + j * j) * p.mobility,
     sin_pi_t      |-> SinPiT(j, n)]

\* The vertex of lines 94-107 for leaflet k at step j.
Vertex(k, j, n, length, p) ==
    [theta_center  |-> k,
     t_num         |-> j,
     t_den         |-> n - 1,
     r_num         |-> annulus_radius * (n - 1) + length * j,
     curvature_num |-> 3 * ((n - 1) * (n - 1) - j * j) * p.mobility,
     sin_pi_t      |-> SinPiT(j, n)]

\* theta = theta_center + curvature * np.sin(np.pi * t) is theta_center
\* itself exactly when the product is 0.0: a factor is 0.0.
ThetaIsCenter(v) == v.curvature_num = 0 \/ v.sin_pi_t = "zero"

\* stiffness * 0.5 (exact: every tabulated stiffness is even).
Half(x) == x \div 2

skip_quarter(n) == Max(1, n \div 4)

skip_sixteenth(n) == Max(1, n \div 16)

\* skip = max(1, n_points_per_leaflet // 8)
skip(n) == Max(1, n \div 8)

VertexStopShort(n) == n - 1

\* range(n_points_per_leaflet)
VertexStop(n) == n

LongStopShort(n) == n - 2

\* range(n_points_per_leaflet - 1)
LongStop(n) == n - 1

BeamStopLong(n) == n - 1

\* range(n_points_per_leaflet - 2)
BeamStop(n) == n - 2

CrossStopLong(n) == n - 1

\* range(0, n_points_per_leaflet - skip - 1, skip)
CrossStop(n) == n - skip(n) - 1

base_idx_short(k, n) == k * (n - 1)

\* base_idx = leaflet_idx * n_points_per_leaflet
base_idx(k, n) == k * n

LongSpringFromTip(k, j, n, p) ==
    [idx1 |-> base_idx(k, n) + (n - 2 - j),
     idx2 |-> base_idx(k, n) + (n - 1 - j),
     stiffness |-> p.spring_stiffness, damping |-> 0]

\* [idx1, idx2, stiffness, damping]
LongSpring(k, j, n, p) ==
    [idx1 |-> base_idx(k, n) + j, idx2 |-> base_idx(k, n) + j + 1,
     stiffness |-> p.spring_stiffness, damping |-> 0]

CrossSpring(k, j, n, p) ==
    [idx1 |-> base_idx(k, n) + j, idx2 |-> base_idx(k, n) + j + skip(n),
     stiffness |-> Half(p.spring_stiffness), damping |-> 0]

\* [idx1, idx2, idx3, rigidity]
Beam(k, j, n, p) ==
    [idx1 |-> base_idx(k, n) + j, idx2 |-> base_idx(k, n) + j + 1,
     idx3 |-> base_idx(k, n) + j + 2, rigidity |-> p.beam_rigidity]

StaleLeafletLength(old) == old

\* A later call binds leaflet_length to its default again (line 20): the
\* float the previous call scaled on line 75 was that call's local.
FreshLeafletLength(old) == leaflet_length_default

\* No call has been made yet.
NoCall == [called |-> FALSE, severity |-> "healthy", n |-> 0,
           raised |-> "none", returned |-> FALSE, result |-> <<>>]

\* What the caller keeps of the call that just ended.
Outcome ==
    [called |-> TRUE, severity |-> severity, n |-> n_points_per_leaflet,
     raised |-> raised, returned |-> (pc = "returned"), result |-> result]

(***************************************************************************)
(* Text written to and read from the three files.  A line is a sequence    *)
(* of pieces, one per format field, separator and line end; a piece is     *)
(* [text, sym]: text is the characters written, and sym is empty, except   *)
(* for a vertex coordinate, whose digits depend on cos and sin: there text *)
(* is empty and sym holds the coordinate that "%e" renders with seven      *)
(* significant digits.                                                     *)
(***************************************************************************)

RECURSIVE Pow10(_)

Pow10(k) == IF k <= 0 THEN 1 ELSE 10 * Pow10(k - 1)

Abs(x) == IF x < 0 THEN 0 - x ELSE x

DigitChar(d) == <<"0", "1", "2", "3", "4", "5", "6", "7", "8", "9">>[d + 1]

DigitVal(c) == CHOOSE d \in 0..9 : DigitChar(d) = c

RECURSIVE Digits(_)

\* The decimal digits of a natural number, most significant first.
Digits(n) == IF n < 10 THEN <<DigitChar(n)>>
             ELSE Append(Digits(n \div 10), DigitChar(n % 10))

RECURSIVE DigitsToNat(_)

\* The natural number a sequence of digit characters spells.
DigitsToNat(chars) ==
    IF chars = <<>> THEN 0
    ELSE 10 * DigitsToNat(SubSeq(chars, 1, Len(chars) - 1))
            + DigitVal(chars[Len(chars)])

Spaces(k) == [x \in 1..(IF k > 0 THEN k ELSE 0) |-> " "]

\* A piece of exact text.
Text(chars) == [text |-> chars, sym |-> <<>>]

\* The characters of format(n, "<width>d"): right-aligned, never truncated.
FormatD(n, width) ==
    LET body == (IF n < 0 THEN <<"-">> ELSE <<>>) \o Digits(Abs(n))
    IN  Spaces(width - Len(body)) \o body

\* Seven significant digits of m, a natural number of d digits, rounded
\* half to even as the decimal value m is.
Round7(m, d) ==
    IF d <= 7 THEN m * Pow10(7 - d)
    ELSE LET unit == Pow10(d - 7)
             q == m \div unit
             r == m % unit
         IN  IF 2 * r > unit \/ (2 * r = unit /\ q % 2 = 1) THEN q + 1 ELSE q

\* The characters of format(x, "e") for the decimal x = num * 10^-scale:
\* d.dddddde+XX.
FormatE(num, scale) ==
    LET m == Abs(num)
        d == Len(Digits(m))
        r == Round7(m, d)
        carry == r = Pow10(7)
        mant == IF m = 0 THEN Digits(Pow10(7)) ELSE
                IF carry THEN Digits(Pow10(6)) ELSE Digits(r)
        e == IF m = 0 THEN 0 ELSE (d - 1 - scale) + (IF carry THEN 1 ELSE 0)
        shown == IF m = 0 THEN <<"0", "0", "0", "0", "0", "0", "0">>
                 ELSE SubSeq(mant, 1, 7)
    IN  (IF num < 0 THEN <<"-">> ELSE <<>>)
        \o <<shown[1], ".">> \o SubSeq(shown, 2, 7)
        \o <<"e", IF e < 0 THEN "-" ELSE "+">>
        \o (IF Abs(e) < 10 THEN <<"0">> ELSE <<>>) \o Digits(Abs(e))

\* str.strip / str.split on one piece: the characters that are not blank.
Strip(chars) == SelectSeq(chars, LAMBDA c : c \notin {" ", "\t", "\n"})

\* int(token)
ParseInt(chars) ==
    IF chars[1] = "-" THEN 0 - DigitsToNat(Tail(chars))
    ELSE DigitsToNat(chars)

\* float(token) for a token d.dddddde+XX, in units of 10^-scale.
ParseE(chars, scale) ==
    LET neg == chars[1] = "-"
        body == IF neg THEN Tail(chars) ELSE chars
        epos == CHOOSE k \in 1..Len(body) : body[k] = "e"
        dot == CHOOSE k \in 1..epos : body[k] = "."
        mant == DigitsToNat(SubSeq(body, 1, dot - 1)
                            \o SubSeq(body, dot + 1, epos - 1))
        frac == epos - 1 - dot
        e == ParseInt(IF body[epos + 1] = "+"
                      THEN SubSeq(body, epos + 2, Len(body))
                      ELSE SubSeq(body, epos + 1, Len(body)))
        shift == e - frac + scale
        value == IF shift >= 0 THEN mant * Pow10(shift)
                 ELSE mant \div Pow10(0 - shift)
    IN  IF neg THEN 0 - value ELSE value

WriterOrderSpringFirst == <<"spring", "vertex", "beam">>

\* The three output files, in the order main writes them.
WriterOrder == <<"vertex", "spring", "beam">>

Exts == {"vertex", "spring", "beam"}

\* Decimal places of the model's units: stiffness and damping in dyn/cm,
\* rigidity in units of 1e-2.
StiffnessScale == 0

RigidityScale == 2

\* x = r * np.cos(theta), y = r * np.sin(theta): reals fixed by the vertex.
XOf(v) == [axis |-> "x", of |-> v]

YOf(v) == [axis |-> "y", of |-> v]

\* The piece format(c, "e") writes for a coordinate.
Sym(c) == [text |-> <<>>, sym |-> <<c>>]

\* A real read back from its seven significant digits.
Rounded(c) == [digits |-> 7, of |-> c]

\* f"{len(...)}\n"
CountLine(n) == <<Text(FormatD(n, 0)), Text(<<"\n">>)>>

\* f"{v[0]:e}\t{v[1]:e}\n"
VertexLine(v) ==
    <<Sym(XOf(v)), Text(<<"\t">>), Sym(YOf(v)), Text(<<"\n">>)>>

SpringLineDampingFirst(s) ==
    <<Text(FormatD(s.idx1, 6)), Text(<<" ">>),
      Text(FormatD(s.idx2, 6)), Text(<<" ">>),
      Text(FormatE(s.damping, StiffnessScale)), Text(<<" ">>),
      Text(FormatE(s.stiffness, StiffnessScale)), Text(<<"\n">>)>>

\* f"{s[0]:6d} {s[1]:6d} {s[2]:e} {s[3]:e}\n"
SpringLine(s) ==
    <<Text(FormatD(s.idx1, 6)), Text(<<" ">>),
      Text(FormatD(s.idx2, 6)), Text(<<" ">>),
      Text(FormatE(s.stiffness, StiffnessScale)), Text(<<" ">>),
      Text(FormatE(s.damping, StiffnessScale)), Text(<<"\n">>)>>

\* f"{b[0]:6d} {b[1]:6d} {b[2]:6d} {b[3]:e}\n"
BeamLine(b) ==
    <<Text(FormatD(b.idx1, 6)), Text(<<" ">>),
      Text(FormatD(b.idx2, 6)), Text(<<" ">>),
      Text(FormatD(b.idx3, 6)), Text(<<" ">>),
      Text(FormatE(b.rigidity, RigidityScale)), Text(<<"\n">>)>>

\* The record line a writer writes for one element.
RecordLine(w, x) ==
    CASE w = "vertex" -> VertexLine(x)
      [] w = "spring" -> SpringLine(x)
      [] w = "beam" -> BeamLine(x)

\* What main hands to a writer: vertices, springs, beams of line 229.
Data(w) ==
    CASE w = "vertex" -> result[1]
      [] w = "spring" -> result[2]
      [] w = "beam" -> result[3]

NextWriter(w) == IF w = "vertex" THEN "spring" ELSE "beam"

\* Lines 235-238: the path of an output file, the prefix
\* f"{args.output_prefix}_{args.severity}_{args.resolution}" and the
\* extension (output_prefix is kept at its default).
Filename(w) == <<"valve2d", severity, n_points_per_leaflet, w>>

\* A file that does not exist.
NoFile == [exists |-> FALSE, lines |-> <<>>]

\* A line printed to stdout.
Msg(what, w, n) == [text |-> what, file |-> w, n |-> n]

WithExitLeak(h, w) == h

\* Leaving the with block, normally or by an exception, closes the handle.
WithExit(h, w) == h \ {w}

OnWriterErrorContinue(w) ==
    IF w = "beam" THEN [mpc |-> "summary", writer |-> w, wpc |-> "idle"]
    ELSE [mpc |-> "write", writer |-> NextWriter(w), wpc |-> "call"]

\* main has no try: an exception of a writer ends main.
OnWriterError(w) == [mpc |-> "aborted", writer |-> w, wpc |-> "idle"]

\* The tokens of line.strip().split(): the pieces that are not blank.
Fields(line) ==
    SelectSeq(line, LAMBDA p : p.sym # <<>> \/ Strip(p.text) # <<>>)

\* float(token), in units of 10^-scale.
ReadFloat(p, scale) ==
    IF p.sym # <<>> THEN Rounded(p.sym[1]) ELSE ParseE(Strip(p.text), scale)

\* int(token)
ReadInt(p) == ParseInt(Strip(p.text))

\* read_vertex_file: int(f.readline().strip()) rows of two floats.
read_vertex_file(lines) ==
    [k \in 1..ReadInt(Fields(lines[1])[1]) |->
        <<ReadFloat(Fields(lines[k + 1])[1], 0),
          ReadFloat(Fields(lines[k + 1])[2], 0)>>]

read_spring_file_swapped(lines) ==
    [k \in 1..ReadInt(Fields(lines[1])[1]) |->
        [idx1 |-> ReadInt(Fields(lines[k + 1])[1]),
         idx2 |-> ReadInt(Fields(lines[k + 1])[2]),
         stiffness |-> ReadFloat(Fields(lines[k + 1])[4], StiffnessScale),
         damping |-> ReadFloat(Fields(lines[k + 1])[3], StiffnessScale)]]

\* read_spring_file: rows [int, int, float, float].
read_spring_file(lines) ==
    [k \in 1..ReadInt(Fields(lines[1])[1]) |->
        [idx1 |-> ReadInt(Fields(lines[k + 1])[1]),
         idx2 |-> ReadInt(Fields(lines[k + 1])[2]),
         stiffness |-> ReadFloat(Fields(lines[k + 1])[3], StiffnessScale),
         damping |-> ReadFloat(Fields(lines[k + 1])[4], StiffnessScale)]]

\* read_beam_file: rows [int, int, int, float].
read_beam_file(lines) ==
    [k \in 1..ReadInt(Fields(lines[1])[1]) |->
        [idx1 |-> ReadInt(Fields(lines[k + 1])[1]),
         idx2 |-> ReadInt(Fields(lines[k + 1])[2]),
         idx3 |-> ReadInt(Fields(lines[k + 1])[3]),
         rigidity |-> ReadFloat(Fields(lines[k + 1])[4], RigidityScale)]]

\* Nothing read yet.
NoReadback == [vertices |-> <<>>, springs |-> <<>>, beams |-> <<>>]

\* Largest x coordinate of a vertex given to calculate_geometric_properties.
GridMax == 2

\* Most vertices given to calculate_geometric_properties.
MaxPropVertices == 3

\* Most springs given to calculate_geometric_properties.
MaxPropSprings == 2

\* Vertex positions (cm) the function is given: points of a small grid.
GridPoints == (0..GridMax) \X (0..1)

\* Vertex arrays of shape (n, 2), as read_vertex_file returns them.
VertexInputs == UNION {[1..k -> GridPoints] : k \in 0..MaxPropVertices}

\* Spring lists a spring file is written from.
SpringInputs ==
    UNION {[1..k -> {[idx1 |-> 0, idx2 |-> 1, stiffness |-> st, damping |-> 0] :
                        st \in {severity_params["healthy"].spring_stiffness,
                                severity_params["severe"].spring_stiffness}}] :
             k \in 0..MaxPropSprings}

\* The spring file holding the springs s.
SpringFile(s) == <<CountLine(Len(s))>> \o [k \in 1..Len(s) |-> SpringLine(s[k])]

RECURSIVE SumSeq(_)
SumSeq(s) == IF s = <<>> THEN 0 ELSE s[1] + SumSeq(Tail(s))

MinOf(S) == CHOOSE x \in S : \A y \in S : x <= y

MaxOf(S) == CHOOSE x \in S : \A y \in S : x >= y

\* The arrays are the ones main read from the files of a generated model:
\* a row is the pair of rounded coordinates of a generated vertex.
FromFiles == props_caller = "main"

\* The generated vertex a row read from the vertex file stands for.
VertexOfRow(row) == row[1].of.of

\* np.mean(vertices, axis=0): the coordinate sums over the row count
\* (nan, nan when there is no row).  The rows of a generated model are
\* three copies of one leaflet a third of a turn apart, so their sums cancel
\* to the precision written.
np_mean(vs) ==
    IF FromFiles
    THEN [sum |-> <<0, 0>>, n |-> Len(vs)]
    ELSE [sum |-> <<SumSeq([k \in DOMAIN vs |-> vs[k][1]]),
                    SumSeq([k \in DOMAIN vs |-> vs[k][2]])>>,
          n |-> Len(vs)]

NoCenter == [sum |-> <<0, 0>>, n |-> 0]

\* np.linalg.norm(vertices - center, axis=1), each entry as the square of
\* RadiiDen times the distance (an integer).  A row of a generated model
\* lies at its vertex's r = r_num / t_den (in 1e-4 cm, every r_num a
\* multiple of 100) from the centre, to the precision written.
radii(vs, c) ==
    IF FromFiles
    THEN [k \in DOMAIN vs |-> (VertexOfRow(vs[k]).r_num \div 100)
                                 * (VertexOfRow(vs[k]).r_num \div 100)]
    ELSE [k \in DOMAIN vs |->
             (c.n * vs[k][1] - c.sum[1]) * (c.n * vs[k][1] - c.sum[1])
           + (c.n * vs[k][2] - c.sum[2]) * (c.n * vs[k][2] - c.sum[2])]

\* What the entries of radii are scaled by, distances being in cm.
RadiiDen(vs, c) ==
    IF FromFiles THEN VertexOfRow(vs[1]).t_den * 100 ELSE c.n

\* The radius sqrt(sq) / den.
Radius(sq, den) == [sq |-> sq, den |-> den]

NoRadius == Radius(0, 0)

\* Twice the signed area of the triangle a, b, c.
Cross(a, b, c) == (b[1] - a[1]) * (c[2] - a[2]) - (b[2] - a[2]) * (c[1] - a[1])

\* ConvexHull(vertices) raises QhullError: no three of the points span a
\* triangle (fewer than three distinct points, or all on one line).
HullFails(vs) ==
    IF FromFiles
    THEN ~\E a, b, c \in {VertexOfRow(vs[k]) : k \in DOMAIN vs} :
             /\ a.t_num = 0 /\ b.t_num = 0 /\ c.t_num = 0
             /\ a.theta_center # b.theta_center
             /\ a.theta_center # c.theta_center
             /\ b.theta_center # c.theta_center
    ELSE \A a, b, c \in {vs[k] : k \in DOMAIN vs} : Cross(a, b, c) = 0

\* The edges of the hull, counter-clockwise: every point is on the left of
\* the edge or on the edge itself.
HullEdges(P) ==
    {e \in P \X P :
        /\ e[1] # e[2]
        /\ \A c \in P :
              /\ Cross(e[1], e[2], c) >= 0
              /\ Cross(e[1], e[2], c) = 0 =>
                    LET d == (c[1] - e[1][1]) * (e[2][1] - e[1][1])
                           + (c[2] - e[1][2]) * (e[2][2] - e[1][2])
                        l == (e[2][1] - e[1][1]) * (e[2][1] - e[1][1])
                           + (e[2][2] - e[1][2]) * (e[2][2] - e[1][2])
                    IN  d >= 0 /\ d <= l}

RECURSIVE ShoelaceSum(_)
ShoelaceSum(E) ==
    IF E = {} THEN 0
    ELSE LET e == CHOOSE x \in E : TRUE
         IN  e[1][1] * e[2][2] - e[1][2] * e[2][1] + ShoelaceSum(E \ {e})

\* hull.volume: the area enclosed by the hull, held as twice the area; the
\* area of the hull of a generated model is a real the model does not
\* evaluate.
HullArea(vs) ==
    IF FromFiles
    THEN [kind |-> "hull_of_generated", twice |-> 0, radius |-> NoRadius]
    ELSE [kind |-> "hull",
          twice |-> ShoelaceSum(HullEdges({vs[k] : k \in DOMAIN vs})),
          radius |-> NoRadius]

\* np.pi * min_radius**2
CircleArea(r) == [kind |-> "circle", twice |-> 0, radius |-> r]

NoArea == [kind |-> "unset", twice |-> 0, radius |-> NoRadius]

\* A stiffness statistic num / den, in dyn/cm.
Stiffness(num, den) == [num |-> num, den |-> den]

NoStiffness == Stiffness(0, 0)

NoProperties ==
    [center |-> NoCenter, min_radius |-> NoRadius, max_radius |-> NoRadius,
     radial_extent |-> <<NoRadius, NoRadius>>, orifice_area |-> NoArea,
     avg_stiffness |-> NoStiffness, max_stiffness |-> NoStiffness,
     n_vertices |-> 0, n_springs |-> 0]

\* Mean gradients (mmHg) calculate_clinical_severity is given.
GradientInputs == {5, 10, 11, 24, 25, 26, 40, 41}

\* Peak velocities (cm/s) it is given.
VelocityInputs == {100, 200, 201, 299, 300, 301, 400, 401}

\* Effective orifice areas it is given, in tenths of a cm2.
EoaInputs == {9, 10, 12, 15, 16, 20, 21}

\* calculate_clinical_severity, lines 104-111 (eoa in tenths of a cm2).
calculate_clinical_severity(g, v, a) ==
    IF g > 40 \/ v > 400 \/ a < 10 THEN "SEVERE"
    ELSE IF g > 25 \/ v > 300 \/ a < 15 THEN "MODERATE"
    ELSE IF g > 10 \/ v > 200 \/ a < 20 THEN "MILD"
    ELSE "NORMAL"

Consumed(x) == <<>>

\* A list after code that only reads it (iteration, len, indexing, or
\* arithmetic that builds a new array): the list itself.
ReadOnly(x) == x

\* The position of a writer's list in the tuple the generator returns.
DataIndex(w) == CASE w = "vertex" -> 1 [] w = "spring" -> 2 [] w = "beam" -> 3

n_per_leaflet_quarter(vs) == Len(vs) \div 4

\* n_per_leaflet = len(vertices) // 3
n_per_leaflet(vs) == Len(vs) \div 3

\* base_indices = [0, n_per_leaflet, 2*n_per_leaflet]
base_indices(vs) == <<0, n_per_leaflet(vs), 2 * n_per_leaflet(vs)>>

\* tip_indices = [n_per_leaflet-1, 2*n_per_leaflet-1, len(vertices)-1]
tip_indices(vs) ==
    <<n_per_leaflet(vs) - 1, 2 * n_per_leaflet(vs) - 1, Len(vs) - 1>>

\* for i in range(3): (base_idx, tip_idx) of the centerline drawn.
centerlines(vs) ==
    [x \in 1..3 |-> <<(x - 1) * n_per_leaflet(vs),
                      (x - 1) * n_per_leaflet(vs) + n_per_leaflet(vs) - 1>>]

\* Nothing marked yet.
NoMarks == [n_per_leaflet |-> 0, base_indices |-> <<>>, tip_indices |-> <<>>,
            centerlines |-> <<>>]

\* Everything outside the frame of calculate_geometric_properties.
restVars == <<genVars, prev, mainVars, readVars, clinVars>>

Init ==
    /\ pc = "idle"
    /\ severity = "healthy"
    /\ n_points_per_leaflet = 32
    /\ params = NoParams
    /\ leaflet_length = leaflet_length_default
    /\ vertices = <<>>
    /\ springs = <<>>
    /\ beams = <<>>
    /\ n_vertices = 0
    /\ leaflet_idx = 0
    /\ i = 0
    /\ raised = "none"
    /\ result = <<>>
    /\ prev = NoCall
    /\ mpc = "none"
    /\ writer = "vertex"
    /\ wpc = "idle"
    /\ wi = 0
    /\ files = [w \in Exts |-> NoFile]
    /\ handles = {}
    /\ stdout = <<>>
    /\ invoked = <<>>
    /\ main_raised = "none"
    /\ failed_at = "none"
    /\ vpc = "none"
    /\ readback = NoReadback
    /\ props_pc = "idle"
    /\ props_vertices = <<>>
    /\ props_springs = <<>>
    /\ center = NoCenter
    /\ min_radius = NoRadius
    /\ max_radius = NoRadius
    /\ orifice_area = NoArea
    /\ avg_stiffness = NoStiffness
    /\ max_stiffness = NoStiffness
    /\ props_raised = "none"
    /\ properties = NoProperties
    /\ props_caller = "none"
    /\ marks = NoMarks
    /\ clin_pc = "idle"
    /\ mean_gradient = 0
    /\ peak_velocity = 0
    /\ eoa = 0
    /\ clin_result = "none"

\* generate_aortic_valve(n_points_per_leaflet=n, severity=label) is entered.
Call ==
    /\ pc = "idle"
    /\ \E label \in Severities, n \in Resolutions :
          /\ severity' = label
          /\ n_points_per_leaflet' = n
    /\ pc' = "lookup"
    /\ UNCHANGED <<params, leaflet_length, vertices, springs, beams,
                   n_vertices, leaflet_idx, i, raised, result>>
    /\ UNCHANGED outerVars

\* Lines 74-82: the lookup succeeds, the length is scaled, the lists are made.
Setup ==
    /\ pc = "lookup"
    /\ Lookup(severity).raises = "none"
    /\ params' = Lookup(severity).value
    /\ leaflet_length' = ScaledLength(leaflet_length, Lookup(severity).value)
    /\ vertices' = <<>>
    /\ springs' = <<>>
    /\ beams' = <<>>
    /\ leaflet_idx' = 0
    /\ i' = 0
    /\ pc' = "vertices"
    /\ UNCHANGED <<severity, n_points_per_leaflet, n_vertices, raised, result>>
    /\ UNCHANGED outerVars

\* Line 74 raises KeyError: nothing after it runs.
SetupKeyError ==
    /\ pc = "lookup"
    /\ Lookup(severity).raises # "none"
    /\ raised' = Lookup(severity).raises
    /\ pc' = "raised"
    /\ UNCHANGED <<severity, n_points_per_leaflet, params, leaflet_length,
                   vertices, springs, beams, n_vertices, leaflet_idx, i, result>>
    /\ UNCHANGED outerVars

\* Lines 93-107: one iteration of the inner vertex loop.
VertexStep ==
    /\ pc = "vertices"
    /\ leaflet_idx < n_leaflets
    /\ i < VertexStop(n_points_per_leaflet)
    /\ ~DividesByZero(n_points_per_leaflet)
    /\ vertices' = Append(vertices,
                          Vertex(leaflet_idx, i, n_points_per_leaflet,
                                 leaflet_length, params))
    /\ i' = i + 1
    /\ UNCHANGED <<pc, severity, n_points_per_leaflet, params, leaflet_length,
                   springs, beams, n_vertices, leaflet_idx, raised, result>>
    /\ UNCHANGED outerVars

\* Line 94 raises ZeroDivisionError.
VertexDivisionError ==
    /\ pc = "vertices"
    /\ leaflet_idx < n_leaflets
    /\ i < VertexStop(n_points_per_leaflet)
    /\ DividesByZero(n_points_per_leaflet)
    /\ raised' = "ZeroDivisionError"
    /\ pc' = "raised"
    /\ UNCHANGED <<severity, n_points_per_leaflet, params, leaflet_length,
                   vertices, springs, beams, n_vertices, leaflet_idx, i, result>>
    /\ UNCHANGED outerVars

\* The inner vertex loop is exhausted: next leaflet (line 84).
VertexNextLeaflet ==
    /\ pc = "vertices"
    /\ leaflet_idx < n_leaflets
    /\ i >= VertexStop(n_points_per_leaflet)
    /\ leaflet_idx' = leaflet_idx + 1
    /\ i' = 0
    /\ UNCHANGED <<pc, severity, n_points_per_leaflet, params, leaflet_length,
                   vertices, springs, beams, n_vertices, raised, result>>
    /\ UNCHANGED outerVars

\* Lines 109-113: the outer vertex loop is exhausted.
VertexDone ==
    /\ pc = "vertices"
    /\ leaflet_idx >= n_leaflets
    /\ n_vertices' = Len(vertices)
    /\ leaflet_idx' = 0
    /\ i' = 0
    /\ pc' = "longitudinal"
    /\ UNCHANGED <<severity, n_points_per_leaflet, params, leaflet_length,
                   vertices, springs, beams, raised, result>>
    /\ UNCHANGED outerVars

\* Lines 117-122: one longitudinal spring.
LongStep ==
    /\ pc = "longitudinal"
    /\ leaflet_idx < n_leaflets
    /\ i < LongStop(n_points_per_leaflet)
    /\ springs' = Append(springs,
                         LongSpring(leaflet_idx, i, n_points_per_leaflet, params))
    /\ i' = i + 1
    /\ UNCHANGED <<pc, severity, n_points_per_leaflet, params, leaflet_length,
                   vertices, beams, n_vertices, leaflet_idx, raised, result>>
    /\ UNCHANGED outerVars

LongNextLeaflet ==
    /\ pc = "longitudinal"
    /\ leaflet_idx < n_leaflets
    /\ i >= LongStop(n_points_per_leaflet)
    /\ leaflet_idx' = leaflet_idx + 1
    /\ i' = 0
    /\ UNCHANGED <<pc, severity, n_points_per_leaflet, params, leaflet_length,
                   vertices, springs, beams, n_vertices, raised, result>>
    /\ UNCHANGED outerVars

LongDone ==
    /\ pc = "longitudinal"
    /\ leaflet_idx >= n_leaflets
    /\ leaflet_idx' = 0
    /\ i' = 0
    /\ pc' = "beams"
    /\ UNCHANGED <<severity, n_points_per_leaflet, params, leaflet_length,
                   vertices, springs, beams, n_vertices, raised, result>>
    /\ UNCHANGED outerVars

\* Lines 129-134: one beam.
BeamStep ==
    /\ pc = "beams"
    /\ leaflet_idx < n_leaflets
    /\ i < BeamStop(n_points_per_leaflet)
    /\ beams' = Append(beams,
                       Beam(leaflet_idx, i, n_points_per_leaflet, params))
    /\ i' = i + 1
    /\ UNCHANGED <<pc, severity, n_points_per_leaflet, params, leaflet_length,
                   vertices, springs, n_vertices, leaflet_idx, raised, result>>
    /\ UNCHANGED outerVars

BeamNextLeaflet ==
    /\ pc = "beams"
    /\ leaflet_idx < n_leaflets
    /\ i >= BeamStop(n_points_per_leaflet)
    /\ leaflet_idx' = leaflet_idx + 1
    /\ i' = 0
    /\ UNCHANGED <<pc, severity, n_points_per_leaflet, params, leaflet_length,
                   vertices, springs, beams, n_vertices, raised, result>>
    /\ UNCHANGED outerVars

BeamDone ==
    /\ pc = "beams"
    /\ leaflet_idx >= n_leaflets
    /\ leaflet_idx' = 0
    /\ i' = 0
    /\ pc' = "cross"
    /\ UNCHANGED <<severity, n_points_per_leaflet, params, leaflet_length,
                   vertices, springs, beams, n_vertices, raised, result>>
    /\ UNCHANGED outerVars

\* Lines 142-147: one cross spring.
CrossStep ==
    /\ pc = "cross"
    /\ leaflet_idx < n_leaflets
    /\ i < CrossStop(n_points_per_leaflet)
    /\ springs' = Append(springs,
                         CrossSpring(leaflet_idx, i, n_points_per_leaflet, params))
    /\ i' = i + skip(n_points_per_leaflet)
    /\ UNCHANGED <<pc, severity, n_points_per_leaflet, params, leaflet_length,
                   vertices, beams, n_vertices, leaflet_idx, raised, result>>
    /\ UNCHANGED outerVars

CrossNextLeaflet ==
    /\ pc = "cross"
    /\ leaflet_idx < n_leaflets
    /\ i >= CrossStop(n_points_per_leaflet)
    /\ leaflet_idx' = leaflet_idx + 1
    /\ i' = 0
    /\ UNCHANGED <<pc, severity, n_points_per_leaflet, params, leaflet_length,
                   vertices, springs, beams, n_vertices, raised, result>>
    /\ UNCHANGED outerVars

\* Line 149: return vertices, springs, beams, params.
Return ==
    /\ pc = "cross"
    /\ leaflet_idx >= n_leaflets
    /\ result' = <<vertices, springs, beams, params>>
    /\ pc' = "returned"
    /\ UNCHANGED <<severity, n_points_per_leaflet, params, leaflet_length,
                   vertices, springs, beams, n_vertices, leaflet_idx, i, raised>>
    /\ UNCHANGED outerVars

\* generate_aortic_valve is entered, as Call, in a run that calls it repeatedly.
CallPair ==
    /\ pc = "idle"
    /\ \E label \in Severities, n \in PairResolutions :
          /\ severity' = label
          /\ n_points_per_leaflet' = n
    /\ pc' = "lookup"
    /\ UNCHANGED <<params, leaflet_length, vertices, springs, beams,
                   n_vertices, leaflet_idx, i, raised, result>>
    /\ UNCHANGED outerVars

\* The call has ended (return or raise): its frame is gone, the caller keeps
\* the outcome and may call again.
Discard ==
    /\ pc \in {"returned", "raised"}
    /\ prev' = Outcome
    /\ pc' = "idle"
    /\ severity' = "healthy"
    /\ n_points_per_leaflet' = 32
    /\ params' = NoParams
    /\ leaflet_length' = FreshLeafletLength(leaflet_length)
    /\ vertices' = <<>>
    /\ springs' = <<>>
    /\ beams' = <<>>
    /\ n_vertices' = 0
    /\ leaflet_idx' = 0
    /\ i' = 0
    /\ raised' = "none"
    /\ result' = <<>>
    /\ UNCHANGED <<mainVars, readVars, propVars, clinVars>>

\* main, lines 225-232: the arguments are parsed (argparse admits only the
\* four labels), the banner is printed and the generator is called.
MainCall ==
    /\ mpc = "none"
    /\ pc = "idle"
    /\ \E label \in Labels, n \in MainResolutions :
          /\ severity' = label
          /\ n_points_per_leaflet' = n
    /\ pc' = "lookup"
    /\ mpc' = "generate"
    /\ stdout' = Append(stdout, Msg("Generating", "none", 0))
    /\ UNCHANGED <<params, leaflet_length, vertices, springs, beams,
                   n_vertices, leaflet_idx, i, raised, result>>
    /\ UNCHANGED <<writer, wpc, wi, files, handles, invoked, main_raised,
                   failed_at, prev, readVars, propVars, clinVars>>

\* Lines 229-241: the generator has returned; the file names are built and
\* write_vertex_file is called.
MainGenerated ==
    /\ mpc = "generate"
    /\ pc = "returned"
    /\ mpc' = "write"
    /\ writer' = WriterOrder[1]
    /\ wpc' = "call"
    /\ UNCHANGED <<wi, files, handles, stdout, invoked, main_raised,
                   failed_at, prev, readVars, genVars, propVars, clinVars>>

\* Line 229: the generator raised; main does not catch it.
MainGenerateRaises ==
    /\ mpc = "generate"
    /\ pc = "raised"
    /\ mpc' = "aborted"
    /\ main_raised' = raised
    /\ failed_at' = "generate"
    /\ UNCHANGED <<writer, wpc, wi, files, handles, stdout, invoked,
                   prev, readVars, genVars, propVars, clinVars>>

\* with open(filename, 'w') as f: the file is created or truncated.
WriterOpen ==
    /\ mpc = "write"
    /\ wpc = "call"
    /\ invoked' = Append(invoked, writer)
    /\ handles' = handles \cup {writer}
    /\ files' = [files EXCEPT ![writer] = [exists |-> TRUE, lines |-> <<>>]]
    /\ wpc' = "count"
    /\ UNCHANGED <<mpc, writer, wi, stdout, main_raised, failed_at,
                   prev, readVars, genVars, propVars, clinVars>>

\* open raises OSError (no such directory, no permission): nothing is
\* written and the exception goes to main.
WriterOpenFails ==
    /\ mpc = "write"
    /\ wpc = "call"
    /\ invoked' = Append(invoked, writer)
    /\ main_raised' = "OSError"
    /\ failed_at' = "open"
    /\ mpc' = OnWriterError(writer).mpc
    /\ writer' = OnWriterError(writer).writer
    /\ wpc' = OnWriterError(writer).wpc
    /\ UNCHANGED <<wi, files, handles, stdout, prev, readVars, genVars, propVars, clinVars>>

\* f.write(f"{len(...)}\n")
WriterCount ==
    /\ mpc = "write"
    /\ wpc = "count"
    /\ files' = [files EXCEPT ![writer].lines =
                    Append(@, CountLine(Len(Data(writer))))]
    /\ wi' = 0
    /\ wpc' = "records"
    /\ UNCHANGED <<mpc, writer, handles, stdout, invoked, main_raised,
                   failed_at, prev, readVars, genVars, propVars, clinVars>>

\* One iteration of the writer's for loop.
WriterRecord ==
    /\ mpc = "write"
    /\ wpc = "records"
    /\ wi < Len(Data(writer))
    /\ files' = [files EXCEPT ![writer].lines =
                    Append(@, RecordLine(writer, Data(writer)[wi + 1]))]
    /\ wi' = wi + 1
    /\ result' = [result EXCEPT ![DataIndex(writer)] = ReadOnly(@)]
    /\ UNCHANGED <<mpc, writer, wpc, handles, stdout, invoked, main_raised,
                   failed_at, prev, readVars, propVars, clinVars>>
    /\ UNCHANGED <<pc, severity, n_points_per_leaflet, params, leaflet_length,
                   vertices, springs, beams, n_vertices, leaflet_idx, i, raised>>

\* f.write (or the flush at close) raises OSError: the with block closes
\* the handle, what was written so far stays, the exception goes to main.
WriterWriteFails ==
    /\ mpc = "write"
    /\ wpc \in {"count", "records"}
    /\ handles' = WithExit(handles, writer)
    /\ main_raised' = "OSError"
    /\ failed_at' = "write"
    /\ mpc' = OnWriterError(writer).mpc
    /\ writer' = OnWriterError(writer).writer
    /\ wpc' = OnWriterError(writer).wpc
    /\ UNCHANGED <<wi, files, stdout, invoked, prev, readVars, genVars, propVars, clinVars>>

\* The loop is exhausted: the with block closes the handle, the writer
\* prints its line and returns; main calls the next writer (lines 241-243).
WriterExit ==
    /\ mpc = "write"
    /\ wpc = "records"
    /\ wi >= Len(Data(writer))
    /\ handles' = WithExit(handles, writer)
    /\ stdout' = Append(stdout, Msg("Written", writer, Len(Data(writer))))
    /\ IF writer = WriterOrder[3]
       THEN mpc' = "summary" /\ wpc' = "idle" /\ writer' = writer
       ELSE mpc' = "write" /\ wpc' = "call" /\ writer' = NextWriter(writer)
    /\ UNCHANGED <<wi, files, invoked, main_raised, failed_at,
                   prev, readVars, genVars, propVars, clinVars>>

\* Lines 245-260: the summary and "Geometry generation complete!".
MainSummary ==
    /\ mpc = "summary"
    /\ stdout' = Append(Append(stdout, Msg("Summary", "none", Len(result[1]))),
                        Msg("complete", "none", 0))
    /\ mpc' = "done"
    /\ UNCHANGED <<writer, wpc, wi, files, handles, invoked, main_raised,
                   failed_at, prev, readVars, genVars, propVars, clinVars>>

\* visualize_geometry.py, line 314: vertices = read_vertex_file(...)
ReadVertexFile ==
    /\ mpc = "done"
    /\ vpc = "none"
    /\ files["vertex"].exists
    /\ readback' = [readback EXCEPT
                       !.vertices = read_vertex_file(files["vertex"].lines)]
    /\ vpc' = "vertices"
    /\ UNCHANGED <<marks, prev, mainVars, genVars, propVars, clinVars>>

\* Line 315: springs = read_spring_file(...)
ReadSpringFile ==
    /\ vpc = "vertices"
    /\ files["spring"].exists
    /\ readback' = [readback EXCEPT
                       !.springs = read_spring_file(files["spring"].lines)]
    /\ vpc' = "springs"
    /\ UNCHANGED <<marks, prev, mainVars, genVars, propVars, clinVars>>

\* Line 316: beams = read_beam_file(...)
ReadBeamFile ==
    /\ vpc = "springs"
    /\ files["beam"].exists
    /\ readback' = [readback EXCEPT
                       !.beams = read_beam_file(files["beam"].lines)]
    /\ vpc' = "beams"
    /\ UNCHANGED <<marks, prev, mainVars, genVars, propVars, clinVars>>

\* calculate_geometric_properties(vertices, springs) is entered, springs
\* being what read_spring_file returns for a spring file.
PropsCall ==
    /\ props_pc = "idle"
    /\ \E vs \in VertexInputs, s \in SpringInputs :
          /\ props_vertices' = vs
          /\ props_springs' = read_spring_file(SpringFile(s))
    /\ props_pc' = "center"
    /\ props_caller' = "direct"
    /\ UNCHANGED <<center, min_radius, max_radius, orifice_area,
                   avg_stiffness, max_stiffness, props_raised, properties,
                   restVars>>

\* line 62
PropsCenter ==
    /\ props_pc = "center"
    /\ center' = np_mean(props_vertices)
    /\ props_pc' = "radii"
    /\ UNCHANGED <<props_vertices, props_springs, min_radius, max_radius,
                   orifice_area, avg_stiffness, max_stiffness, props_raised,
                   properties, props_caller, restVars>>

\* lines 65-67
PropsRadii ==
    /\ props_pc = "radii"
    /\ props_vertices # <<>>
    /\ LET r == radii(props_vertices, center)
           d == RadiiDen(props_vertices, center)
       IN  /\ min_radius' = Radius(MinOf({r[k] : k \in DOMAIN r}), d)
           /\ max_radius' = Radius(MaxOf({r[k] : k \in DOMAIN r}), d)
    /\ props_pc' = "hull"
    /\ props_vertices' = ReadOnly(props_vertices)
    /\ UNCHANGED <<props_springs, center, orifice_area,
                   avg_stiffness, max_stiffness, props_raised, properties,
                   props_caller, restVars>>

\* line 66: np.min of an array of no radii raises ValueError.
PropsRadiiValueError ==
    /\ props_pc = "radii"
    /\ props_vertices = <<>>
    /\ props_raised' = "ValueError"
    /\ props_pc' = "raised"
    /\ UNCHANGED <<props_vertices, props_springs, center, min_radius,
                   max_radius, orifice_area, avg_stiffness, max_stiffness,
                   properties, props_caller, restVars>>

\* lines 71-73
PropsHull ==
    /\ props_pc = "hull"
    /\ ~HullFails(props_vertices)
    /\ orifice_area' = HullArea(props_vertices)
    /\ props_pc' = "stiffness"
    /\ UNCHANGED <<props_vertices, props_springs, center, min_radius,
                   max_radius, avg_stiffness, max_stiffness, props_raised,
                   properties, props_caller, restVars>>

\* lines 72, 74-75: ConvexHull raises and the bare except takes over.
PropsHullExcept ==
    /\ props_pc = "hull"
    /\ HullFails(props_vertices)
    /\ orifice_area' = CircleArea(min_radius)
    /\ props_pc' = "stiffness"
    /\ UNCHANGED <<props_vertices, props_springs, center, min_radius,
                   max_radius, avg_stiffness, max_stiffness, props_raised,
                   properties, props_caller, restVars>>

\* lines 78-82
PropsStiffness ==
    /\ props_pc = "stiffness"
    /\ props_springs # <<>>
    /\ LET st == [k \in DOMAIN props_springs |-> props_springs[k].stiffness]
       IN  /\ avg_stiffness' = Stiffness(SumSeq(st), Len(st))
           /\ max_stiffness' = Stiffness(MaxOf({st[k] : k \in DOMAIN st}), 1)
    /\ props_pc' = "return"
    /\ props_springs' = ReadOnly(props_springs)
    /\ UNCHANGED <<props_vertices, center, min_radius,
                   max_radius, orifice_area, props_raised, properties,
                   props_caller, restVars>>

\* line 81: np.array([]) has one axis, springs[:, 2] raises IndexError.
PropsStiffnessIndexError ==
    /\ props_pc = "stiffness"
    /\ props_springs = <<>>
    /\ props_raised' = "IndexError"
    /\ props_pc' = "raised"
    /\ UNCHANGED <<props_vertices, props_springs, center, min_radius,
                   max_radius, orifice_area, avg_stiffness, max_stiffness,
                   properties, props_caller, restVars>>

\* lines 84-96
PropsReturn ==
    /\ props_pc = "return"
    /\ properties' =
          [center |-> center, min_radius |-> min_radius,
           max_radius |-> max_radius,
           radial_extent |-> <<max_radius, min_radius>>,
           orifice_area |-> orifice_area,
           avg_stiffness |-> avg_stiffness, max_stiffness |-> max_stiffness,
           n_vertices |-> Len(props_vertices),
           n_springs |-> Len(props_springs)]
    /\ props_pc' = "returned"
    /\ UNCHANGED <<props_vertices, props_springs, center, min_radius,
                   max_radius, orifice_area, avg_stiffness, max_stiffness,
                   props_raised, props_caller, restVars>>

\* visualize_geometry.py, line 318: main hands the arrays it read to
\* calculate_geometric_properties.
VizPropsCall ==
    /\ vpc = "beams"
    /\ props_pc = "idle"
    /\ props_vertices' = readback.vertices
    /\ props_springs' = readback.springs
    /\ props_caller' = "main"
    /\ props_pc' = "center"
    /\ vpc' = "props"
    /\ UNCHANGED <<center, min_radius, max_radius, orifice_area,
                   avg_stiffness, max_stiffness, props_raised, properties,
                   readback, marks, genVars, prev, mainVars, clinVars>>

\* Line 318: the properties are bound to props, main goes on to the plot.
VizPropsReturned ==
    /\ vpc = "props"
    /\ props_pc = "returned"
    /\ vpc' = "plot"
    /\ UNCHANGED <<readback, marks, genVars, prev, mainVars, propVars,
                   clinVars>>

\* Line 318: calculate_geometric_properties raised; main does not catch it.
VizPropsRaised ==
    /\ vpc = "props"
    /\ props_pc = "raised"
    /\ vpc' = "aborted"
    /\ UNCHANGED <<readback, marks, genVars, prev, mainVars, propVars,
                   clinVars>>

\* Lines 321, 125-134: plot_single_geometry marks the annulus attachments
\* and the tips.
PlotSingleGeometry ==
    /\ vpc = "plot"
    /\ marks' = [n_per_leaflet |-> n_per_leaflet(readback.vertices),
                 base_indices |-> base_indices(readback.vertices),
                 tip_indices |-> tip_indices(readback.vertices),
                 centerlines |-> <<>>]
    /\ vpc' = "plotted"
    /\ UNCHANGED <<readback, genVars, prev, mainVars, propVars, clinVars>>

\* Lines 344-347, 258, 266-275: annotate mode; plot_with_coordinate_system
\* calls plot_single_geometry and draws the three centerlines.
PlotWithCoordinateSystem ==
    /\ vpc = "springs"
    /\ readback.vertices # <<>>
    /\ marks' = [n_per_leaflet |-> n_per_leaflet(readback.vertices),
                 base_indices |-> base_indices(readback.vertices),
                 tip_indices |-> tip_indices(readback.vertices),
                 centerlines |-> centerlines(readback.vertices)]
    /\ vpc' = "annotated"
    /\ UNCHANGED <<readback, genVars, prev, mainVars, propVars, clinVars>>

\* Line 128 reached from line 347: vertices[base_indices, 0] on an array of
\* no rows raises IndexError.
PlotIndexError ==
    /\ vpc = "springs"
    /\ readback.vertices = <<>>
    /\ vpc' = "aborted"
    /\ UNCHANGED <<readback, marks, genVars, prev, mainVars, propVars,
                   clinVars>>

\* calculate_clinical_severity(mean_gradient, peak_velocity, eoa) is entered.
ClinCall ==
    /\ clin_pc = "idle"
    /\ \E g \in GradientInputs, v \in VelocityInputs, a \in EoaInputs :
          /\ mean_gradient' = g
          /\ peak_velocity' = v
          /\ eoa' = a
    /\ clin_pc' = "called"
    /\ UNCHANGED <<clin_result, genVars, prev, mainVars, readVars, propVars>>

\* Lines 104-111: the first branch whose condition holds returns.
ClinReturn ==
    /\ clin_pc = "called"
    /\ clin_result' = calculate_clinical_severity(mean_gradient, peak_velocity,
                                                  eoa)
    /\ clin_pc' = "returned"
    /\ UNCHANGED <<mean_gradient, peak_velocity, eoa, genVars, prev, mainVars,
                   readVars, propVars>>

Next ==
    \/ Call
    \/ Setup
    \/ SetupKeyError
    \/ VertexStep
    \/ VertexDivisionError
    \/ VertexNextLeaflet
    \/ VertexDone
    \/ LongStep
    \/ LongNextLeaflet
    \/ LongDone
    \/ BeamStep
    \/ BeamNextLeaflet
    \/ BeamDone
    \/ CrossStep
    \/ CrossNextLeaflet
    \/ Return

Spec == Init /\ [][Next]_vars

\* The steps of one call with a label of the table, from after its entry to
\* its return or raise.
GenerateSteps ==
    \/ Setup
    \/ VertexStep
    \/ VertexDivisionError
    \/ VertexNextLeaflet
    \/ VertexDone
    \/ LongStep
    \/ LongNextLeaflet
    \/ LongDone
    \/ BeamStep
    \/ BeamNextLeaflet
    \/ BeamDone
    \/ CrossStep
    \/ CrossNextLeaflet
    \/ Return

\* The steps of one call, from after its entry to its return or raise.
Generate ==
    \/ SetupKeyError
    \/ GenerateSteps

NextPair ==
    \/ CallPair
    \/ Discard
    \/ Generate

NextMain ==
    \/ MainCall
    \/ GenerateSteps
    \/ MainGenerated
    \/ MainGenerateRaises
    \/ WriterOpen
    \/ WriterOpenFails
    \/ WriterCount
    \/ WriterRecord
    \/ WriterWriteFails
    \/ WriterExit
    \/ MainSummary
    \/ ReadVertexFile
    \/ ReadSpringFile
    \/ ReadBeamFile
    \/ VizPropsCall
    \/ PropsCenter
    \/ PropsRadii
    \/ PropsRadiiValueError
    \/ PropsHull
    \/ PropsStiffness
    \/ PropsReturn
    \/ VizPropsReturned
    \/ VizPropsRaised
    \/ PlotSingleGeometry
    \/ PlotWithCoordinateSystem
    \/ PlotIndexError

\* One run of main, followed by visualize_geometry.py reading the files.
SpecMain == Init /\ [][NextMain]_vars

\* The generator called again and again by one caller.
SpecPair == Init /\ [][NextPair]_vars

NextProps ==
    \/ PropsCall
    \/ PropsCenter
    \/ PropsRadii
    \/ PropsRadiiValueError
    \/ PropsHull
    \/ PropsHullExcept
    \/ PropsStiffness
    \/ PropsStiffnessIndexError
    \/ PropsReturn

\* One call of calculate_geometric_properties.
SpecProps == Init /\ [][NextProps]_vars

NextClinical ==
    \/ ClinCall
    \/ ClinReturn

\* One call of calculate_clinical_severity.
SpecClinical == Init /\ [][NextClinical]_vars

(***************************************************************************)
(* Properties of the generator.  The expected values below are written     *)
(* from the documented contract, with their own arithmetic, and compared   *)
(* with what the actions above produce.                                    *)
(***************************************************************************)

\* The generator has returned a model for a resolution of at least 2.
Generated == pc = "returned" /\ n_points_per_leaflet >= 2

\* max(1, n // 8) as the contract words it.
ExpectedSkip(n) == IF n \div 8 >= 1 THEN n \div 8 ELSE 1

\* Block-relative start indices of the cross springs: 0, skip, 2*skip, ...
\* while i + skip < n - 1.
ExpectedCrossStarts(n) ==
    {j \in 0..n : j % ExpectedSkip(n) = 0 /\ j + ExpectedSkip(n) < n - 1}

\* The elements of a sequence, as a set.
Range(seq) == {seq[x] : x \in DOMAIN seq}

\* The positions of seq whose element satisfies Test.
Positions(seq, Test(_)) == {x \in DOMAIN seq : Test(seq[x])}

IsLongitudinal(s) == s.stiffness = params.spring_stiffness

IsCross(s) == s.stiffness # params.spring_stiffness

\* The leaflet block an index belongs to, for block size n > 0.
Block(idx, n) == idx \div n

\* C1: for every severity and every pointsPerLeaflet >= 2 the returned model
\* has exactly 3 * pointsPerLeaflet vertices, at indices 0 .. 3n-1 (sequence
\* positions 1 .. 3n), and the vertex generated for leaflet k at step j sits
\* at index k * pointsPerLeaflet + j.
C1_VertexBlocks ==
    Generated =>
        /\ Len(result[1]) = 3 * n_points_per_leaflet
        /\ n_vertices = 3 * n_points_per_leaflet
        /\ DOMAIN result[1] = 1..(3 * n_points_per_leaflet)
        /\ \A k \in 0..2, j \in 0..(n_points_per_leaflet - 1) :
              /\ result[1][k * n_points_per_leaflet + j + 1].theta_center = k
              /\ result[1][k * n_points_per_leaflet + j + 1].t_num = j

C1_Witness ==
    /\ Generated
    /\ n_points_per_leaflet = 5
    /\ Len(result[1]) = 15
    /\ result[1][11].theta_center = 2

\* C2: every index of every spring and beam lies in 0 .. 3n-1, and all the
\* indices of one element lie in the same leaflet block; this holds at every
\* step of the generation, not only of the returned model.
C2_IndicesInOwnBlock ==
    (n_points_per_leaflet >= 2) =>
        /\ \A x \in DOMAIN springs :
              /\ springs[x].idx1 \in 0..(3 * n_points_per_leaflet - 1)
              /\ springs[x].idx2 \in 0..(3 * n_points_per_leaflet - 1)
              /\ Block(springs[x].idx1, n_points_per_leaflet)
                    = Block(springs[x].idx2, n_points_per_leaflet)
        /\ \A x \in DOMAIN beams :
              /\ beams[x].idx1 \in 0..(3 * n_points_per_leaflet - 1)
              /\ beams[x].idx2 \in 0..(3 * n_points_per_leaflet - 1)
              /\ beams[x].idx3 \in 0..(3 * n_points_per_leaflet - 1)
              /\ Block(beams[x].idx1, n_points_per_leaflet)
                    = Block(beams[x].idx2, n_points_per_leaflet)
              /\ Block(beams[x].idx2, n_points_per_leaflet)
                    = Block(beams[x].idx3, n_points_per_leaflet)

C2_Witness ==
    /\ Generated
    /\ n_points_per_leaflet = 17
    /\ \E x \in DOMAIN springs : springs[x].idx2 - springs[x].idx1 = 2
    /\ \E x \in DOMAIN beams : beams[x].idx3 = 3 * 17 - 1

\* C3: the springs that carry the full spring stiffness are exactly the
\* pairs (base+j, base+j+1), j = 0 .. n-2, of each leaflet block, once each,
\* with damping 0.
C3_LongitudinalSprings ==
    Generated =>
        /\ {result[2][x] : x \in Positions(result[2], IsLongitudinal)}
              = {[idx1 |-> k * n_points_per_leaflet + j,
                  idx2 |-> k * n_points_per_leaflet + j + 1,
                  stiffness |-> severity_params[severity].spring_stiffness,
                  damping |-> 0] :
                 k \in 0..2, j \in 0..(n_points_per_leaflet - 2)}
        /\ Cardinality(Positions(result[2], IsLongitudinal))
              = 3 * (n_points_per_leaflet - 1)

C3_Witness ==
    /\ Generated
    /\ n_points_per_leaflet = 6
    /\ severity = "moderate"
    /\ [idx1 |-> 16, idx2 |-> 17, stiffness |-> 1500, damping |-> 0]
          \in Range(result[2])

\* C4: the springs that are not longitudinal are exactly the pairs
\* (base+j, base+j+skip), skip = max(1, n // 8), for j in {0, skip, ...}
\* with j + skip < n - 1, once each, with half the spring stiffness and
\* damping 0.
C4_CrossSprings ==
    Generated =>
        /\ {result[2][x] : x \in Positions(result[2], IsCross)}
              = {[idx1 |-> k * n_points_per_leaflet + j,
                  idx2 |-> k * n_points_per_leaflet + j
                              + ExpectedSkip(n_points_per_leaflet),
                  stiffness |-> severity_params[severity].spring_stiffness \div 2,
                  damping |-> 0] :
                 k \in 0..2, j \in ExpectedCrossStarts(n_points_per_leaflet)}
        /\ Cardinality(Positions(result[2], IsCross))
              = 3 * Cardinality(ExpectedCrossStarts(n_points_per_leaflet))

C4_Witness ==
    /\ Generated
    /\ n_points_per_leaflet = 16
    /\ severity = "mild"
    /\ [idx1 |-> 16 + 12, idx2 |-> 16 + 14, stiffness |-> 400, damping |-> 0]
          \in Range(result[2])

\* C5: the beams of each leaflet block are exactly the triples
\* (base+j, base+j+1, base+j+2), j = 0 .. n-3, once each, with the profile's
\* beam rigidity; a resolution below 3 yields no beam.
C5_Beams ==
    Generated =>
        /\ Range(result[3])
              = {[idx1 |-> k * n_points_per_leaflet + j,
                  idx2 |-> k * n_points_per_leaflet + j + 1,
                  idx3 |-> k * n_points_per_leaflet + j + 2,
                  rigidity |-> severity_params[severity].beam_rigidity] :
                 k \in 0..2, j \in 0..(n_points_per_leaflet - 3)}
        /\ Len(result[3]) = 3 * Cardinality(0..(n_points_per_leaflet - 3))
        /\ (n_points_per_leaflet < 3 => result[3] = <<>>)

C5_Witness ==
    /\ Generated
    /\ n_points_per_leaflet = 7
    /\ severity = "severe"
    /\ [idx1 |-> 18, idx2 |-> 19, idx3 |-> 20, rigidity |-> 10]
          \in Range(result[3])

\* C6: each leaflet contributes n-1 longitudinal springs, one cross spring
\* per start index of the skip rule and max(0, n-2) beams; healthy at
\* resolution 4 gives 12 vertices, 9 longitudinal and 6 cross springs
\* (15 springs) and 6 beams.
C6_Counts ==
    Generated =>
        /\ Cardinality(Positions(result[2], IsLongitudinal))
              = 3 * (n_points_per_leaflet - 1)
        /\ Cardinality(Positions(result[2], IsCross))
              = 3 * Cardinality(ExpectedCrossStarts(n_points_per_leaflet))
        /\ Len(result[2])
              = 3 * ((n_points_per_leaflet - 1)
                     + Cardinality(ExpectedCrossStarts(n_points_per_leaflet)))
        /\ Len(result[3])
              = 3 * (IF n_points_per_leaflet - 2 > 0
                     THEN n_points_per_leaflet - 2 ELSE 0)
        /\ (severity = "healthy" /\ n_points_per_leaflet = 4 =>
              /\ Len(result[1]) = 12
              /\ Cardinality(Positions(result[2], IsLongitudinal)) = 9
              /\ Cardinality(Positions(result[2], IsCross)) = 6
              /\ Len(result[2]) = 15
              /\ Len(result[3]) = 6)

C6_Witness ==
    /\ Generated
    /\ severity = "healthy"
    /\ n_points_per_leaflet = 4
    /\ Len(result[2]) = 15

\* C7: a call with a label outside the table ends at the lookup with
\* KeyError (the code's UnknownSeverity); no vertex, spring or beam exists
\* and nothing is returned.
C7_UnknownSeverity ==
    (severity \notin Labels /\ pc \notin {"idle", "lookup"}) =>
        /\ pc = "raised"
        /\ raised = "KeyError"
        /\ params = NoParams
        /\ vertices = <<>>
        /\ springs = <<>>
        /\ beams = <<>>
        /\ result = <<>>

C7_Witness ==
    /\ severity = "unknown"
    /\ pc = "raised"
    /\ raised = "KeyError"

\* C8: a call with pointsPerLeaflet = 1 and a label of the table ends with
\* an error before any vertex is appended, and returns nothing.
C8_ResolutionOne ==
    (n_points_per_leaflet = 1 /\ severity \in Labels) =>
        /\ vertices = <<>>
        /\ result = <<>>
        /\ pc \in {"idle", "lookup", "vertices", "raised"}
        /\ (pc = "raised" => raised = "ZeroDivisionError")
        /\ (pc = "vertices" => leaflet_idx = 0 /\ i = 0)

C8_Witness ==
    /\ n_points_per_leaflet = 1
    /\ severity = "mild"
    /\ pc = "raised"
    /\ raised = "ZeroDivisionError"
    /\ vertices = <<>>

\* C9 (as claimed): for every pointsPerLeaflet < 2 the generator fails and
\* never returns a model, not even an empty one.
C9_BelowTwoNeverReturns ==
    (pc # "idle" /\ n_points_per_leaflet < 2) => pc # "returned"

\* C10: the lookup yields the tabulated row for each label; stiffness and
\* rigidity are positive, length factor and mobility lie in (0, 1]
\* (percent and tenths).
C10_ProfileTable ==
    (pc \notin {"idle", "lookup"} /\ raised # "KeyError") =>
        /\ severity = "healthy" =>
              params = [spring_stiffness |-> 500, beam_rigidity |-> 1,
                        leaflet_length_factor |-> 100, mobility |-> 10]
        /\ severity = "mild" =>
              params = [spring_stiffness |-> 800, beam_rigidity |-> 2,
                        leaflet_length_factor |-> 95, mobility |-> 9]
        /\ severity = "moderate" =>
              params = [spring_stiffness |-> 1500, beam_rigidity |-> 5,
                        leaflet_length_factor |-> 85, mobility |-> 7]
        /\ severity = "severe" =>
              params = [spring_stiffness |-> 3000, beam_rigidity |-> 10,
                        leaflet_length_factor |-> 70, mobility |-> 4]
        /\ severity \in Labels
        /\ params.spring_stiffness > 0
        /\ params.beam_rigidity > 0
        /\ params.leaflet_length_factor > 0
        /\ params.leaflet_length_factor <= 100
        /\ params.mobility > 0
        /\ params.mobility <= 10
        /\ (pc = "returned" => result[4] = params)

C10_Witness ==
    /\ pc = "returned"
    /\ severity = "severe"
    /\ result[4].mobility = 4
    /\ result[4].spring_stiffness = 3000

\* The order of the severity table, healthy first.
Rank(label) ==
    CASE label = "healthy" -> 0
      [] label = "mild" -> 1
      [] label = "moderate" -> 2
      [] label = "severe" -> 3
      [] OTHER -> 4

\* The current call and the one before it have both returned a model.
BothReturned == pc = "returned" /\ prev.returned

\* C11: spring stiffness strictly increases and mobility strictly decreases
\* along healthy, mild, moderate, severe; for one resolution every spring of
\* the more severe model is strictly stiffer than the spring at the same
\* position of the less severe model (compared over two successive calls).
C11_SeverityMonotone ==
    (BothReturned /\ Rank(prev.severity) < Rank(severity)) =>
        /\ prev.result[4].spring_stiffness < result[4].spring_stiffness
        /\ prev.result[4].mobility > result[4].mobility
        /\ (prev.n = n_points_per_leaflet =>
              /\ Len(prev.result[2]) = Len(result[2])
              /\ \A x \in DOMAIN result[2] :
                    /\ prev.result[2][x].idx1 = result[2][x].idx1
                    /\ prev.result[2][x].idx2 = result[2][x].idx2
                    /\ prev.result[2][x].stiffness < result[2][x].stiffness)

C11_Witness ==
    /\ BothReturned
    /\ prev.severity = "healthy"
    /\ severity = "mild"
    /\ prev.n = 5
    /\ n_points_per_leaflet = 5
    /\ prev.result[2][14].stiffness = 250
    /\ result[2][14].stiffness = 400

\* C14: in the returned model the first vertex of every block (t = 0) has
\* radius annulusRadius, the last (t = 1) has radius annulusRadius +
\* nominalLeafletLength * leafletLengthFactor, and both lie at the block's
\* base angle k * 2*pi/3 exactly (the angular offset is 0.0).
C14_EndpointsOnBaseAngle ==
    Generated =>
        \A k \in 0..2 :
            LET first == result[1][k * n_points_per_leaflet + 1]
                last  == result[1][(k + 1) * n_points_per_leaflet]
                factor == severity_params[severity].leaflet_length_factor
            IN  /\ first.t_num = 0
                /\ first.r_num = annulus_radius * first.t_den
                /\ first.theta_center = k
                /\ ThetaIsCenter(first)
                /\ last.t_num = last.t_den
                /\ 100 * last.r_num
                      = (100 * annulus_radius + leaflet_length_default * factor)
                           * last.t_den
                /\ last.theta_center = k
                /\ ThetaIsCenter(last)

C14_Witness ==
    /\ Generated
    /\ severity = "moderate"
    /\ n_points_per_leaflet = 9
    /\ result[1][19].theta_center = 2
    /\ result[1][27].r_num = 8 * (10000 + 10200)
    /\ result[1][27].sin_pi_t = "tiny"
    /\ \E x \in 20..26 : ~ThetaIsCenter(result[1][x])

\* The endpoint pair of a spring.
Endpoints(s) == <<s.idx1, s.idx2>>

\* No endpoint pair occurs at two positions of the spring list.
NoRepeatedEndpoints(list) ==
    \A x, y \in DOMAIN list : x # y => Endpoints(list[x]) # Endpoints(list[y])

\* C15 (as claimed): for every pointsPerLeaflet >= 2 no pair of vertex
\* indices is joined both by a longitudinal and by a cross spring: no
\* endpoint pair occurs twice in the spring list.
C15_NoSharedEndpoints == Generated => NoRepeatedEndpoints(result[2])

\* What holds of the code instead: longitudinal and cross springs are
\* disjoint as springs for every pointsPerLeaflet >= 2 (no spring, stiffness
\* included, occurs twice in the list), and no endpoint pair occurs twice
\* when skip >= 2 (pointsPerLeaflet >= 16) or when there is no cross spring
\* (pointsPerLeaflet = 2).
C15_DisjointWhenSkipping ==
    Generated =>
        /\ \A x, y \in DOMAIN result[2] : x # y => result[2][x] # result[2][y]
        /\ {result[2][x] : x \in Positions(result[2], IsLongitudinal)}
              \cap {result[2][x] : x \in Positions(result[2], IsCross)} = {}
        /\ (ExpectedSkip(n_points_per_leaflet) >= 2 \/ n_points_per_leaflet = 2
               => NoRepeatedEndpoints(result[2]))

C15_SkippingReached ==
    /\ Generated
    /\ n_points_per_leaflet = 16
    /\ severity = "healthy"
    /\ Cardinality(Positions(result[2], IsCross)) = 21
    /\ NoRepeatedEndpoints(result[2])

\* C16: the generator is deterministic and leaves nothing behind: a call
\* with the same severity and resolution as the call before it ends the same
\* way (same return or raise, same vertices, springs, beams and profile, in
\* the same order), every call starts from the default leaflet length, and
\* the arguments are not changed while the call runs.
C16_Deterministic ==
    /\ (pc = "idle" => leaflet_length = leaflet_length_default)
    /\ (pc \in {"returned", "raised"} /\ prev.called =>
          /\ Outcome.severity \in Severities
          /\ Outcome.n \in PairResolutions
          /\ (prev.severity = severity /\ prev.n = n_points_per_leaflet =>
                prev = Outcome))

C16_Witness ==
    /\ BothReturned
    /\ prev.severity = "severe"
    /\ severity = "severe"
    /\ prev.n = 6
    /\ n_points_per_leaflet = 6
    /\ Len(result[1]) = 18
    /\ result[1][18].r_num = 5 * (10000 + 8400)
    /\ prev.result = result

\* The writer of file w has returned.
Finished(w) == \E x \in DOMAIN stdout :
                   stdout[x].text = "Written" /\ stdout[x].file = w

\* The position of a file in the order main writes the files.
OrderOf(w) == CHOOSE k \in 1..3 : WriterOrder[k] = w

\* The line ends with its only line end.
EndsLine(line) ==
    /\ line[Len(line)] = Text(<<"\n">>)
    /\ \A x \in 1..(Len(line) - 1) : "\n" \notin Range(line[x].text)

\* The fields of a record line, as the interchange format words them.
ExpectedFields(w, x) ==
    CASE w = "vertex" -> <<Sym(XOf(x)), Sym(YOf(x))>>
      [] w = "spring" -> <<Text(FormatD(x.idx1, 6)), Text(FormatD(x.idx2, 6)),
                            Text(FormatE(x.stiffness, 0)),
                            Text(FormatE(x.damping, 0))>>
      [] w = "beam" -> <<Text(FormatD(x.idx1, 6)), Text(FormatD(x.idx2, 6)),
                          Text(FormatD(x.idx3, 6)),
                          Text(FormatE(x.rigidity, 2))>>

\* C12: round trip.  Once the three written files are read back, the arrays
\* have the lengths and the order of the generated lists; springs and beams
\* are equal to the generated ones (indices, stiffness, damping, rigidity),
\* and every vertex coordinate is the generated coordinate at the seven
\* significant digits written.
C12_RoundTrip ==
    (vpc = "beams") =>
        /\ Len(readback.vertices) = Len(result[1])
        /\ \A x \in DOMAIN result[1] :
              readback.vertices[x]
                 = <<Rounded(XOf(result[1][x])), Rounded(YOf(result[1][x]))>>
        /\ readback.springs = result[2]
        /\ readback.beams = result[3]

C12_Witness ==
    /\ vpc = "beams"
    /\ severity = "moderate"
    /\ n_points_per_leaflet = 5
    /\ Len(readback.vertices) = 15
    /\ readback.springs[13] = [idx1 |-> 0, idx2 |-> 1, stiffness |-> 750,
                               damping |-> 0]
    /\ readback.beams[9] = [idx1 |-> 12, idx2 |-> 13, idx3 |-> 14,
                            rigidity |-> 5]

\* C13: a finished file is one count line followed by exactly that many
\* record lines, one per element in list order, with the fields in the fixed
\* order (x, y / idx1, idx2, stiffness, damping / idx1, idx2, idx3,
\* rigidity), and nothing after the last record; while a writer runs, the
\* file is the count line and the records written so far.
C13_FileLayout ==
    /\ \A w \in Exts : Finished(w) =>
          /\ files[w].exists
          /\ Len(files[w].lines) = 1 + Len(Data(w))
          /\ Len(Fields(files[w].lines[1])) = 1
          /\ Fields(files[w].lines[1])[1].text = Digits(Len(Data(w)))
          /\ \A k \in DOMAIN files[w].lines : EndsLine(files[w].lines[k])
          /\ \A k \in DOMAIN Data(w) :
                Fields(files[w].lines[k + 1]) = ExpectedFields(w, Data(w)[k])
    /\ (mpc = "write" /\ wpc = "records" =>
          Len(files[writer].lines) = 1 + wi)

C13_Witness ==
    /\ Finished("beam")
    /\ severity = "mild"
    /\ n_points_per_leaflet = 4
    /\ Len(files["spring"].lines) = 16
    /\ files["spring"].lines[16][5].text
          = <<"4", ".", "0", "0", "0", "0", "0", "0", "e", "+", "0", "2">>
    /\ files["beam"].lines[2][7].text
          = <<"2", ".", "0", "0", "0", "0", "0", "0", "e", "-", "0", "2">>
    /\ files["spring"].lines[2][3].text = <<" ", " ", " ", " ", " ", "1">>

\* C19: at most one output handle is open at any moment, only inside the
\* writer that opened it, and none is open once that writer has returned or
\* raised, nor after main has finished or aborted.
C19_OneHandle ==
    /\ Cardinality(handles) <= 1
    /\ (handles # {} =>
          /\ handles = {writer}
          /\ mpc = "write"
          /\ wpc \in {"count", "records"})
    /\ (wpc \in {"idle", "call"} => handles = {})
    /\ (mpc \in {"summary", "done", "aborted"} => handles = {})

C19_Witness ==
    /\ mpc = "aborted"
    /\ failed_at = "write"
    /\ writer = "spring"
    /\ Len(files["spring"].lines) = 3
    /\ Finished("vertex")
    /\ handles = {}

\* C20: when a writer cannot open its target it raises OSError to main
\* without writing anything; main does not catch it: the later writers are
\* never invoked, "complete" is never printed and the run is over.  No
\* writer is ever invoked twice.
C20_OpenFailureEndsMain ==
    /\ (failed_at = "open" =>
          /\ mpc = "aborted"
          /\ main_raised = "OSError"
          /\ invoked[Len(invoked)] = writer
          /\ files[writer] = NoFile
          /\ ~Finished(writer)
          /\ \A w \in Exts : OrderOf(w) > OrderOf(writer) =>
                /\ w \notin Range(invoked)
                /\ files[w] = NoFile
          /\ \A x \in DOMAIN stdout : stdout[x].text # "complete"
          /\ ~ENABLED NextMain)
    /\ \A x, y \in DOMAIN invoked : x # y => invoked[x] # invoked[y]

C20_Witness ==
    /\ failed_at = "open"
    /\ mpc = "aborted"
    /\ writer = "spring"
    /\ invoked = <<"vertex", "spring">>
    /\ Len(files["vertex"].lines) = 10
    /\ files["spring"] = NoFile

\* calculate_geometric_properties has returned or raised.
PropsEnded == props_pc \in {"returned", "raised"}

\* C17: for every vertex set on which the hull computation fails (all
\* points on one line, or fewer than three distinct points), the function
\* does not raise and returns orifice_area = pi * min_radius^2.
C17_HullFailureRecovered ==
    (PropsEnded /\ HullFails(props_vertices)) =>
        /\ props_pc = "returned"
        /\ properties.orifice_area = CircleArea(properties.min_radius)

\* What holds of the code instead: the hull failure itself is never what the
\* caller sees, and with at least one vertex and one spring the function
\* returns the circle area; it raises ValueError when there is no vertex and
\* IndexError when there is no spring.
C17_RecoveredWithVerticesAndSprings ==
    /\ (PropsEnded /\ HullFails(props_vertices)
           /\ props_vertices # <<>> /\ props_springs # <<>>) =>
          /\ props_pc = "returned"
          /\ properties.orifice_area = CircleArea(properties.min_radius)
          /\ properties.min_radius.den = Len(props_vertices)
    /\ (props_pc = "raised" =>
          /\ props_raised \in {"ValueError", "IndexError"}
          /\ props_raised = "ValueError" <=> props_vertices = <<>>
          /\ props_raised = "IndexError" =>
                props_springs = <<>> /\ orifice_area.kind # "unset")
    /\ (props_pc = "returned" /\ ~HullFails(props_vertices) =>
          properties.orifice_area.kind = "hull"
             /\ properties.orifice_area.twice > 0)

C17_ColinearRecovered ==
    /\ props_pc = "returned"
    /\ props_vertices = <<<<0, 0>>, <<1, 0>>, <<2, 0>>>>
    /\ properties.orifice_area = CircleArea(Radius(0, 3))
    /\ properties.max_radius = Radius(9, 3)

\* C18: given no springs, the function returns, with avg_stiffness and
\* max_stiffness undefined and the other properties computed.
C18_NoSpringsReported ==
    (PropsEnded /\ props_springs = <<>>) =>
        /\ props_pc = "returned"
        /\ properties.avg_stiffness = NoStiffness
        /\ properties.max_stiffness = NoStiffness
        /\ properties.n_springs = 0
        /\ properties.n_vertices = Len(props_vertices)

\* What holds of the code instead: given no springs the function always
\* raises and returns nothing.
C18_NoSpringsAlwaysRaises ==
    (PropsEnded /\ props_springs = <<>>) =>
        /\ props_pc = "raised"
        /\ props_raised \in {"ValueError", "IndexError"}
        /\ properties = NoProperties

C18_RaisedAfterHull ==
    /\ props_pc = "raised"
    /\ props_raised = "IndexError"
    /\ props_springs = <<>>
    /\ props_vertices = <<<<0, 0>>, <<2, 0>>, <<0, 1>>>>
    /\ orifice_area = [kind |-> "hull", twice |-> 2, radius |-> NoRadius]

\* The positions of the springs of the returned model that end at idx.
SpringsAt(idx) ==
    {x \in DOMAIN result[2] : result[2][x].idx1 = idx \/ result[2][x].idx2 = idx}

\* C22: for every pointsPerLeaflet >= 2 the tip vertex of each leaflet
\* (block-relative index n - 1) is an endpoint of exactly one spring, the
\* terminal longitudinal spring (base + n - 2, base + n - 1); no cross spring
\* ends at it.
C22_TipOnlyOnTerminalSpring ==
    Generated =>
        \A k \in 0..2 :
            LET tip == k * n_points_per_leaflet + n_points_per_leaflet - 1
            IN  /\ Cardinality(SpringsAt(tip)) = 1
                /\ \A x \in SpringsAt(tip) :
                      result[2][x] = [idx1 |-> tip - 1, idx2 |-> tip,
                                      stiffness |-> result[4].spring_stiffness,
                                      damping |-> 0]

C22_Witness ==
    /\ Generated
    /\ n_points_per_leaflet = 24
    /\ severity = "moderate"
    /\ SpringsAt(47) = {46}
    /\ result[2][76].idx2 = 21
    /\ result[2][76].stiffness = 750

\* The vertex of the returned model at block-relative index j of leaflet k.
VertexAt(k, j) == result[1][k * n_points_per_leaflet + j + 1]

\* C23: within each leaflet block the index order follows the curve from
\* base to tip: t = 0 at block index 0, t = 1 at block index n - 1, and for
\* block indices a < b both the curve parameter and the radial distance of
\* vertex a are strictly smaller than those of vertex b.
C23_BaseToTip ==
    Generated =>
        \A k \in 0..2 :
            /\ VertexAt(k, 0).t_num = 0
            /\ VertexAt(k, n_points_per_leaflet - 1).t_num
                  = VertexAt(k, n_points_per_leaflet - 1).t_den
            /\ \A a, b \in 0..(n_points_per_leaflet - 1) :
                  a < b =>
                     /\ VertexAt(k, a).t_den = VertexAt(k, b).t_den
                     /\ VertexAt(k, a).t_den > 0
                     /\ VertexAt(k, a).t_num < VertexAt(k, b).t_num
                     /\ VertexAt(k, a).r_num < VertexAt(k, b).r_num

C23_Witness ==
    /\ Generated
    /\ n_points_per_leaflet = 9
    /\ severity = "severe"
    /\ VertexAt(2, 3).t_num = 3
    /\ VertexAt(2, 3).t_den = 8
    /\ VertexAt(2, 3).r_num < VertexAt(2, 4).r_num
    /\ VertexAt(2, 8).r_num = 8 * (annulus_radius + ScaledLength(leaflet_length_default, severity_params["severe"]))

\* The nominal leaflet length times the severity's factor, applied once.
EffectiveLength ==
    (leaflet_length_default * severity_params[severity].leaflet_length_factor)
        \div 100

\* C24: the three leaflets are rotated copies of one another: vertex (k, j)
\* has the radius of vertex (0, j) and its angle plus k * 2*pi/3 (same curve
\* parameter, same angular offset from the leaflet's centre), and the length
\* factor is applied once per call, so the effective length is the same for
\* the three leaflets.
C24_RotatedCopies ==
    Generated =>
        /\ leaflet_length = EffectiveLength
        /\ \A k \in 0..2, j \in 0..(n_points_per_leaflet - 1) :
              /\ VertexAt(k, j).r_num = VertexAt(0, j).r_num
              /\ VertexAt(k, j).r_num
                    = annulus_radius * (n_points_per_leaflet - 1)
                      + EffectiveLength * j
              /\ VertexAt(k, j).theta_center = VertexAt(0, j).theta_center + k
              /\ VertexAt(k, j).t_num = VertexAt(0, j).t_num
              /\ VertexAt(k, j).t_den = VertexAt(0, j).t_den
              /\ VertexAt(k, j).curvature_num = VertexAt(0, j).curvature_num
              /\ VertexAt(k, j).sin_pi_t = VertexAt(0, j).sin_pi_t

C24_Witness ==
    /\ Generated
    /\ n_points_per_leaflet = 5
    /\ severity = "moderate"
    /\ leaflet_length = 10200
    /\ VertexAt(0, 4).r_num = 4 * 20200
    /\ VertexAt(2, 4).r_num = 4 * 20200
    /\ VertexAt(2, 2).theta_center = 2
    /\ VertexAt(2, 2).curvature_num = VertexAt(0, 2).curvature_num
    /\ VertexAt(2, 2).curvature_num > 0

\* The vertices one spring away from a vertex of S, with S itself.
Grow(S) ==
    S \cup {result[2][x].idx2 : x \in {y \in DOMAIN result[2] : result[2][y].idx1 \in S}}
      \cup {result[2][x].idx1 : x \in {y \in DOMAIN result[2] : result[2][y].idx2 \in S}}

\* The vertices joined to a vertex of S by a path of springs.
RECURSIVE Reach(_)
Reach(S) == IF Grow(S) = S THEN S ELSE Reach(Grow(S))

\* The connected components of the spring graph on the vertex indices V.
RECURSIVE Components(_)
Components(V) ==
    IF V = {} THEN {}
    ELSE LET c == Reach({CHOOSE v \in V : TRUE})
         IN  {c} \cup Components(V \ c)

\* C25: for every pointsPerLeaflet >= 2 the graph of the springs on the
\* vertices has exactly three connected components, each of them one leaflet
\* block; every vertex is an endpoint of a spring and no path of springs
\* joins two leaflets.
C25_ThreeComponents ==
    Generated =>
        /\ Components(0..(3 * n_points_per_leaflet - 1))
              = {(k * n_points_per_leaflet)
                    ..(k * n_points_per_leaflet + n_points_per_leaflet - 1) :
                 k \in 0..2}
        /\ \A v \in 0..(3 * n_points_per_leaflet - 1) : SpringsAt(v) # {}

C25_Witness ==
    /\ Generated
    /\ n_points_per_leaflet = 17
    /\ Cardinality(Components(0..50)) = 3
    /\ Reach({20}) = 17..33
    /\ Len(result[2]) = 69

\* The number of cross springs of one leaflet.
CrossPerLeaflet(n) == Cardinality(ExpectedCrossStarts(n))

\* C26: in the returned spring list the 3 * (n - 1) longitudinal springs
\* come first, by leaflet 0, 1, 2 and by increasing i inside a leaflet, then
\* the cross springs by leaflet and by increasing i; the beam list is ordered
\* by leaflet and by increasing i; every spring has idx1 < idx2; the record
\* lines of the spring file are in the order of the list.
C26_ListOrder ==
    Generated =>
        LET n == n_points_per_leaflet
            c == CrossPerLeaflet(n)
        IN  /\ Len(result[2]) = 3 * (n - 1) + 3 * c
            /\ \A k \in 0..2, j \in 0..(n - 2) :
                  result[2][k * (n - 1) + j + 1]
                     = [idx1 |-> k * n + j, idx2 |-> k * n + j + 1,
                        stiffness |-> result[4].spring_stiffness,
                        damping |-> 0]
            /\ \A k \in 0..2, m \in 0..(c - 1) :
                  result[2][3 * (n - 1) + k * c + m + 1]
                     = [idx1 |-> k * n + m * ExpectedSkip(n),
                        idx2 |-> k * n + (m + 1) * ExpectedSkip(n),
                        stiffness |-> result[4].spring_stiffness \div 2,
                        damping |-> 0]
            /\ Len(result[3]) = 3 * (n - 2)
            /\ \A k \in 0..2, j \in 0..(n - 3) :
                  result[3][k * (n - 2) + j + 1]
                     = [idx1 |-> k * n + j, idx2 |-> k * n + j + 1,
                        idx3 |-> k * n + j + 2,
                        rigidity |-> result[4].beam_rigidity]
            /\ \A x \in DOMAIN result[2] : result[2][x].idx1 < result[2][x].idx2
            /\ Finished("spring") =>
                  \A x \in DOMAIN result[2] :
                      /\ ReadInt(Fields(files["spring"].lines[x + 1])[1])
                            = result[2][x].idx1
                      /\ ReadInt(Fields(files["spring"].lines[x + 1])[2])
                            = result[2][x].idx2

C26_Witness ==
    /\ Generated
    /\ Finished("spring")
    /\ n_points_per_leaflet = 16
    /\ severity = "mild"
    /\ Len(result[2]) = 66
    /\ result[2][45] = [idx1 |-> 46, idx2 |-> 47, stiffness |-> 800,
                        damping |-> 0]
    /\ result[2][46] = [idx1 |-> 0, idx2 |-> 2, stiffness |-> 400,
                        damping |-> 0]
    /\ result[2][53] = [idx1 |-> 16, idx2 |-> 18, stiffness |-> 400,
                        damping |-> 0]
    /\ ReadInt(Fields(files["spring"].lines[54])[2]) = 18

\* The file w is complete: its writer returned and every record is there.
Complete(w) ==
    /\ Finished(w)
    /\ files[w].exists
    /\ Len(files[w].lines) = 1 + Len(Data(w))

\* C27: in a run of main no output file is opened before the generator has
\* returned; the files are written strictly in the order vertex, spring,
\* beam, each to its own path under one prefix.  A run whose generation
\* fails creates no file; a run whose k-th write fails leaves the earlier
\* files complete and the later ones absent.
C27_WriteOrder ==
    /\ \A w \in Exts :
          (files[w].exists \/ w \in handles \/ w \in Range(invoked)) =>
              pc = "returned" /\ Len(result) = 4
    /\ \A x \in DOMAIN invoked : invoked[x] = <<"vertex", "spring", "beam">>[x]
    /\ \A w \in Exts : files[w].exists => w \in Range(invoked)
    /\ ("spring" \in Range(invoked) => Complete("vertex"))
    /\ ("beam" \in Range(invoked) => Complete("spring"))
    /\ \A w1, w2 \in Exts :
          /\ w1 # w2 => Filename(w1) # Filename(w2)
          /\ SubSeq(Filename(w1), 1, 3) = SubSeq(Filename(w2), 1, 3)
    /\ (mpc = "aborted" /\ pc = "raised" =>
          /\ invoked = <<>>
          /\ \A w \in Exts : files[w] = NoFile)
    /\ (mpc = "aborted" /\ failed_at \in {"open", "write"} =>
          /\ writer = invoked[Len(invoked)]
          /\ \A x \in 1..(Len(invoked) - 1) : Complete(invoked[x])
          /\ \A w \in Exts \ Range(invoked) : files[w] = NoFile)

C27_Witness ==
    /\ mpc = "aborted"
    /\ failed_at = "write"
    /\ invoked = <<"vertex", "spring">>
    /\ n_points_per_leaflet = 3
    /\ Complete("vertex")
    /\ Len(files["vertex"].lines) = 10
    /\ Len(files["spring"].lines) = 4
    /\ files["beam"] = NoFile

C27_GenerationFailed ==
    /\ mpc = "aborted"
    /\ pc = "raised"
    /\ n_points_per_leaflet = 1
    /\ \A w \in Exts : files[w] = NoFile

\* The criteria of the documentation of calculate_clinical_severity (lines
\* 98-101), eoa in tenths of a cm2.
DocMild == mean_gradient < 25 /\ peak_velocity < 300 /\ eoa > 15

DocModerate ==
    /\ mean_gradient >= 25 /\ mean_gradient <= 40
    /\ peak_velocity >= 300 /\ peak_velocity <= 400
    /\ eoa >= 10 /\ eoa <= 15

DocSevere == mean_gradient > 40 /\ peak_velocity > 400 /\ eoa < 10

\* C30: calculate_clinical_severity classifies by the criteria of its
\* documentation: MILD when the three mild criteria hold, MODERATE when the
\* three moderate ranges hold, SEVERE when the three severe criteria hold.
C30_ClassifiesAsDocumented ==
    clin_pc = "returned" =>
        /\ DocMild => clin_result = "MILD"
        /\ DocModerate => clin_result = "MODERATE"
        /\ DocSevere => clin_result = "SEVERE"

\* What holds of the code instead: the severe criteria give SEVERE; the
\* moderate ranges give MODERATE except at gradient 25, velocity 300 and
\* area 1.5 together, which give MILD; the mild criteria give MILD only when
\* the gradient is above 10, the velocity above 200 or the area below 2.0,
\* and NORMAL otherwise.
C30_ClassifiesByThresholds ==
    clin_pc = "returned" =>
        /\ DocSevere => clin_result = "SEVERE"
        /\ DocModerate =>
              clin_result
                 = IF mean_gradient = 25 /\ peak_velocity = 300 /\ eoa = 15
                   THEN "MILD" ELSE "MODERATE"
        /\ DocMild =>
              clin_result
                 = IF mean_gradient > 10 \/ peak_velocity > 200 \/ eoa < 20
                   THEN "MILD" ELSE "NORMAL"

C30_NormalReached ==
    /\ clin_pc = "returned"
    /\ mean_gradient = 5
    /\ peak_velocity = 100
    /\ eoa = 21
    /\ clin_result = "NORMAL"

\* The indices (from 0) of the rows read from the vertex file whose vertex
\* satisfies Test.
RowIndices(Test(_)) ==
    {x - 1 : x \in {y \in DOMAIN readback.vertices :
                       Test(VertexOfRow(readback.vertices[y]))}}

AtBase(v) == v.t_num = 0

AtTip(v) == v.t_num = v.t_den

\* C28: for a vertex file written from a generated model with
\* pointsPerLeaflet >= 2, the block size the two plotting functions recover
\* as len(vertices) // 3 is the pointsPerLeaflet of the generation; the
\* indices marked as annulus attachments (0, n, 2n) are exactly the t = 0
\* vertices and the indices marked as tips (n-1, 2n-1, 3n-1) exactly the
\* t = 1 vertices; each centerline joins the base and the tip of one leaflet.
C28_MarksMatchBlocks ==
    (vpc \in {"plotted", "annotated"} /\ n_points_per_leaflet >= 2) =>
        /\ marks.n_per_leaflet = n_points_per_leaflet
        /\ marks.base_indices
              = <<0, n_points_per_leaflet, 2 * n_points_per_leaflet>>
        /\ marks.tip_indices
              = <<n_points_per_leaflet - 1, 2 * n_points_per_leaflet - 1,
                  3 * n_points_per_leaflet - 1>>
        /\ Range(marks.base_indices) = RowIndices(AtBase)
        /\ Range(marks.tip_indices) = RowIndices(AtTip)
        /\ (vpc = "annotated" =>
              /\ Len(marks.centerlines) = 3
              /\ \A k \in 1..3 :
                    LET b == VertexOfRow(
                                readback.vertices[marks.centerlines[k][1] + 1])
                        t == VertexOfRow(
                                readback.vertices[marks.centerlines[k][2] + 1])
                    IN  /\ AtBase(b) /\ AtTip(t)
                        /\ b.theta_center = k - 1
                        /\ t.theta_center = k - 1)

C28_Witness ==
    /\ vpc = "annotated"
    /\ n_points_per_leaflet = 7
    /\ marks.n_per_leaflet = 7
    /\ marks.tip_indices = <<6, 13, 20>>
    /\ marks.centerlines = <<<<0, 6>>, <<7, 13>>, <<14, 20>>>>
    /\ RowIndices(AtBase) = {0, 7, 14}

\* calculate_geometric_properties has returned to main of
\* visualize_geometry.py for a model generated with pointsPerLeaflet >= 2.
PropsOfGenerated ==
    /\ props_caller = "main"
    /\ props_pc = "returned"
    /\ n_points_per_leaflet >= 2

\* C29: for a model generated with pointsPerLeaflet >= 2, written and read
\* back, the properties report n_vertices = 3 * pointsPerLeaflet, n_springs
\* = the number of longitudinal plus cross springs, max_stiffness = the
\* profile's spring stiffness, avg_stiffness between half of it and it,
\* min_radius <= max_radius and radial_extent = max_radius - min_radius.
C29_ReportedProperties ==
    PropsOfGenerated =>
        LET n == n_points_per_leaflet
            k == severity_params[severity].spring_stiffness
        IN  /\ properties.n_vertices = 3 * n
            /\ properties.n_springs = 3 * (n - 1) + 3 * CrossPerLeaflet(n)
            /\ properties.max_stiffness = Stiffness(k, 1)
            /\ properties.avg_stiffness.den > 0
            /\ 2 * properties.avg_stiffness.num
                  >= k * properties.avg_stiffness.den
            /\ properties.avg_stiffness.num <= k * properties.avg_stiffness.den
            /\ properties.min_radius.den = properties.max_radius.den
            /\ properties.min_radius.den > 0
            /\ properties.min_radius.sq <= properties.max_radius.sq
            /\ properties.radial_extent
                  = <<properties.max_radius, properties.min_radius>>

C29_Witness ==
    /\ PropsOfGenerated
    /\ n_points_per_leaflet = 5
    /\ severity = "severe"
    /\ properties.n_vertices = 15
    /\ properties.n_springs = 21
    /\ properties.max_stiffness = Stiffness(3000, 1)
    /\ properties.avg_stiffness = Stiffness(12 * 3000 + 9 * 1500, 21)
    /\ properties.min_radius = Radius(400 * 400, 400)
    /\ properties.max_radius = Radius(736 * 736, 400)

\* C21: once generate_aortic_valve has returned, nothing changes the model:
\* no step of a writer changes the lists main holds, and no step of
\* calculate_geometric_properties changes the arrays it was given or the
\* arrays its caller read.
C21_ModelUnchanged ==
    [][/\ (pc = "returned" => result' = result)
       /\ (props_pc # "idle" =>
              /\ props_vertices' = props_vertices
              /\ props_springs' = props_springs)
       /\ (vpc \in {"props", "plot", "plotted"} => readback' = readback)]_vars

C21_Witness ==
    /\ vpc = "plotted"
    /\ props_pc = "returned"
    /\ n_points_per_leaflet = 4
    /\ Len(result[1]) = 12
    /\ readback.springs = result[2]
    /\ readback.beams = result[3]
    /\ props_vertices = readback.vertices
    /\ props_springs = result[2]
    /\ \A w \in Exts : Complete(w)

====
